---- MODULE Spec2Model ----
(***************************************************************************)
(* Model of the property API of src/main.py: the FastAPI handlers          *)
(* list_properties, search_properties, create_property, seed_properties    *)
(* and test_database over one MongoDB collection, `property`.              *)
(*                                                                         *)
(* JSON values are tagged records, the tag `t` first, so that any two      *)
(* values can be compared:                                                 *)
(*   Null, Str(s), Num(n), Arr(seq), Obj(function from keys to values),    *)
(*   Oid(n) (a BSON ObjectId), Date(n) (a BSON datetime).                  *)
(* A document, a request body and a query are functions from keys          *)
(* (strings) to JSON values.  Coordinates are in units of 1e-4 degree, so  *)
(* the seed coordinates of the source are whole numbers.                   *)
(***************************************************************************)
EXTENDS Integers, Sequences, FiniteSets, TLC

VARIABLES
    db,           \* the module-level store handle: "none" (db is None) or "handle"
    store,        \* the `property` collection, in natural (insertion) order
    indexExists,  \* whether the 2dsphere index on `location` exists
    nextId,       \* the next ObjectId (and timestamp) the store hands out
    last,         \* the last request, what its handler did, and its response
    nCreated,     \* history: documents inserted by create_property
    nSeedOk,      \* history: seed_properties calls that returned
    submitted     \* history: the body and the returned id of every create that returned

vars == <<db, store, indexExists, nextId, last, nCreated, nSeedOk, submitted>>

\* ---------------------------------------------------------------- bounds

\* Documents the collection may hold.
MaxDocs == 13
\* Documents create_property may insert in one behaviour.
MaxCreated == 1

\* ----------------------------------------------------------- JSON values

Null == [t |-> "null"]
Str(s) == [t |-> "str", v |-> s]
Num(n) == [t |-> "num", v |-> n]
Arr(s) == [t |-> "arr", v |-> s]
Obj(f) == [t |-> "obj", v |-> f]
Oid(n) == [t |-> "oid", v |-> n]
Date(n) == [t |-> "date", v |-> n]

IsStr(x) == x.t = "str"
IsNum(x) == x.t = "num"
IsArr(x) == x.t = "arr"
IsObj(x) == x.t = "obj"

\* The empty mapping {} (a dict with no key).
EmptyMap == [k \in {} |-> Null]

\* dict.get(k): the value under k, None when the key is missing.
Get(d, k) == IF k \in DOMAIN d THEN d[k] ELSE Null

\* The mapping d without the keys of ks.
Without(d, ks) == [k \in DOMAIN d \ ks |-> d[k]]

\* {**a, **b}: the keys of both, b's value where both have the key.
Merge(a, b) == [k \in DOMAIN a \cup DOMAIN b |-> IF k \in DOMAIN b THEN b[k] ELSE a[k]]

\* A GeoJSON position [lon, lat] and geometries.
Pos(x, y) == Arr(<<Num(x), Num(y)>>)
Point(x, y) == Obj([type |-> Str("Point"), coordinates |-> Pos(x, y)])
LineString(ps) == Obj([type |-> Str("LineString"), coordinates |-> Arr(ps)])
\* One linear ring from a sequence of <<x, y>> pairs.
Ring(ps) == Arr([i \in 1..Len(ps) |-> Pos(ps[i][1], ps[i][2])])

\* ------------------------------------------------ request validation

\* The fields of PropertyIn by declared type.
StrFields == {"title", "address", "city", "country", "type", "status", "color"}
FloatFields == {"price", "bathrooms"}
IntFields == {"bedrooms"}
PropertyFields == StrFields \cup FloatFields \cup IntFields \cup {"location"}

\* The strings pydantic's lax mode parses as a number, and their value.
NumericStr == [s \in {"3"} |-> 3]

\* Whether pydantic accepts the value under field k of a PropertyIn body:
\* title and location are required, every other field may be missing or null;
\* a number field also takes a numeric string.
ValidField(body, k) ==
    LET x == Get(body, k) IN
    IF k = "title" THEN k \in DOMAIN body /\ IsStr(x)
    ELSE IF k = "location" THEN k \in DOMAIN body /\ IsObj(x)
    ELSE \/ k \notin DOMAIN body
         \/ x = Null
         \/ k \in StrFields /\ IsStr(x)
         \/ k \notin StrFields /\ IsNum(x)
         \/ k \notin StrFields /\ IsStr(x) /\ x.v \in DOMAIN NumericStr

ValidProperty(body) == \A k \in PropertyFields : ValidField(body, k)

\* Mutant of ModelDump: model_dump(exclude_none=True).
ModelDumpExcludeNone(body) ==
    [k \in {f \in PropertyFields : Get(body, f) # Null} |->
        IF k \in FloatFields \cup IntFields /\ IsStr(body[k])
        THEN Num(NumericStr[body[k].v])
        ELSE body[k]]

\* prop.model_dump(): exactly the declared fields; a missing optional field
\* is None, a numeric string is the number it parses to, an undeclared key
\* of the body is dropped.
ModelDump(body) ==
    [k \in PropertyFields |->
        IF k \notin DOMAIN body THEN Null
        ELSE IF k \in FloatFields \cup IntFields /\ IsStr(body[k])
             THEN Num(NumericStr[body[k].v])
        ELSE body[k]]

\* List[List[List[float]]]
IsFloatList3(c) ==
    /\ IsArr(c)
    /\ \A i \in 1..Len(c.v) :
        /\ IsArr(c.v[i])
        /\ \A j \in 1..Len(c.v[i].v) :
            /\ IsArr(c.v[i].v[j])
            /\ \A k \in 1..Len(c.v[i].v[j].v) : IsNum(c.v[i].v[j].v[k])

\* Mutant of ValidGeoJSONPolygon: the pattern on `type` is missing.
ValidGeoJSONPolygonAnyType(p) ==
    /\ IsObj(p)
    /\ "type" \in DOMAIN p.v /\ IsStr(p.v["type"])
    /\ "coordinates" \in DOMAIN p.v /\ IsFloatList3(p.v["coordinates"])

\* GeoJSONPolygon: type matches ^Polygon$, coordinates is a list of rings.
ValidGeoJSONPolygon(p) ==
    /\ IsObj(p)
    /\ "type" \in DOMAIN p.v /\ IsStr(p.v["type"]) /\ p.v["type"].v = "Polygon"
    /\ "coordinates" \in DOMAIN p.v /\ IsFloatList3(p.v["coordinates"])

\* SearchBody: polygon required, filters an optional mapping.
ValidSearchBody(body) ==
    /\ "polygon" \in DOMAIN body /\ ValidGeoJSONPolygon(body["polygon"])
    /\ "filters" \in DOMAIN body => (body["filters"] = Null \/ IsObj(body["filters"]))

\* ------------------------------------------------------- the store

\* <<lon, lat>> of a position.
XY(pos) == <<pos.v[1].v, pos.v[2].v>>

\* A position the store takes: two numbers, longitude within +-180 degrees
\* and latitude within +-90 degrees.
ValidPosition(pos) ==
    /\ IsArr(pos) /\ Len(pos.v) = 2
    /\ IsNum(pos.v[1]) /\ IsNum(pos.v[2])
    /\ pos.v[1].v >= -(180 * 10000) /\ pos.v[1].v <= 180 * 10000
    /\ pos.v[2].v >= -(90 * 10000) /\ pos.v[2].v <= 90 * 10000

\* A GeoJSON geometry a stored document may carry under an indexed field.
ValidGeometry(g) ==
    /\ IsObj(g)
    /\ "type" \in DOMAIN g.v /\ "coordinates" \in DOMAIN g.v
    /\ IsStr(g.v["type"])
    /\ \/ g.v["type"].v = "Point" /\ ValidPosition(g.v["coordinates"])
       \/ /\ g.v["type"].v = "LineString"
          /\ IsArr(g.v["coordinates"])
          /\ Len(g.v["coordinates"].v) >= 2
          /\ \A i \in 1..Len(g.v["coordinates"].v) : ValidPosition(g.v["coordinates"].v[i])

\* The 2dsphere index on `location` is sparse: it takes a document with no
\* location (missing or null), and any document whose location is a valid
\* geometry; it refuses the others.
IndexAccepts(doc) == Get(doc, "location") = Null \/ ValidGeometry(Get(doc, "location"))

\* A query polygon the store takes: at least one ring, every ring closed
\* with four positions or more.
ValidQueryPolygon(g) ==
    /\ IsObj(g) /\ "coordinates" \in DOMAIN g.v
    /\ LET rings == g.v["coordinates"].v IN
        /\ Len(rings) >= 1
        /\ \A i \in 1..Len(rings) :
            /\ Len(rings[i].v) >= 4
            /\ \A j \in 1..Len(rings[i].v) : ValidPosition(rings[i].v[j])
            /\ rings[i].v[1] = rings[i].v[Len(rings[i].v)]

\* p lies on the segment a-b.
OnSegment(p, a, b) ==
    LET lox == IF a[1] <= b[1] THEN a[1] ELSE b[1]
        hix == IF a[1] <= b[1] THEN b[1] ELSE a[1]
        loy == IF a[2] <= b[2] THEN a[2] ELSE b[2]
        hiy == IF a[2] <= b[2] THEN b[2] ELSE a[2]
    IN /\ p[1] >= lox /\ p[1] <= hix /\ p[2] >= loy /\ p[2] <= hiy
       /\ IF a[1] = b[1] THEN p[1] = a[1]
          ELSE IF a[2] = b[2] THEN p[2] = a[2]
          ELSE (b[1] - a[1]) * (p[2] - a[2]) = (b[2] - a[2]) * (p[1] - a[1])

\* The ray from p towards +x crosses the edge a-b.
Crosses(p, a, b) ==
    /\ (a[2] > p[2]) # (b[2] > p[2])
    /\ IF a[1] = b[1] THEN p[1] < a[1]
       ELSE IF b[2] > a[2]
            THEN (p[1] - a[1]) * (b[2] - a[2]) < (p[2] - a[2]) * (b[1] - a[1])
            ELSE (p[1] - a[1]) * (b[2] - a[2]) > (p[2] - a[2]) * (b[1] - a[1])

OnRing(p, ring) ==
    \E i \in 1..(Len(ring.v) - 1) : OnSegment(p, XY(ring.v[i]), XY(ring.v[i + 1]))

InsideRing(p, ring) ==
    Cardinality({i \in 1..(Len(ring.v) - 1) : Crosses(p, XY(ring.v[i]), XY(ring.v[i + 1]))}) % 2 = 1

\* p is within the polygon, boundary included: on or inside the outer
\* ring and not strictly inside a hole.  Containment is taken in the plane
\* of (lon, lat), which is what the store's test comes to for the regions
\* used here.
PointInPolygon(p, g) ==
    LET rings == g.v["coordinates"].v IN
    /\ OnRing(p, rings[1]) \/ InsideRing(p, rings[1])
    /\ \A i \in 2..Len(rings) : OnRing(p, rings[i]) \/ ~InsideRing(p, rings[i])

\* $geoWithin: the stored geometry lies within the query polygon.  A value
\* that is no geometry matches nothing.  (A LineString is tested by its
\* vertices, which decides it for the convex polygons used here.)
GeoWithin(loc, g) ==
    /\ ValidGeometry(loc)
    /\ IF loc.v["type"].v = "Point" THEN PointInPolygon(XY(loc.v["coordinates"]), g)
       ELSE \A i \in 1..Len(loc.v["coordinates"].v) :
                PointInPolygon(XY(loc.v["coordinates"].v[i]), g)

IsGeoClause(c) == IsObj(c) /\ "$geoWithin" \in DOMAIN c.v
IsGtClause(c) == IsObj(c) /\ "$gt" \in DOMAIN c.v

\* One key of a find() filter against one document: an operator document
\* ($geoWithin, $gt) is evaluated, any other value is an equality match,
\* where null also matches a missing field.
MatchClause(doc, k, c) ==
    IF IsGeoClause(c) THEN GeoWithin(Get(doc, k), c.v["$geoWithin"].v["$geometry"])
    ELSE IF IsGtClause(c)
         THEN k \in DOMAIN doc /\ IsNum(doc[k]) /\ IsNum(c.v["$gt"]) /\ doc[k].v > c.v["$gt"].v
    ELSE Get(doc, k) = c

Matches(doc, query) == \A k \in DOMAIN query : MatchClause(doc, k, query[k])

\* The store runs the query: it refuses a $geoWithin over a malformed polygon.
QueryOk(query) ==
    \A k \in DOMAIN query :
        IsGeoClause(query[k]) => ValidQueryPolygon(query[k].v["$geoWithin"].v["$geometry"])

\* Mutant of Limit: the cap is off by one.
LimitOffByOne(docs, n) ==
    LET m == IF n < 0 THEN -n ELSE n IN
    IF n = 0 \/ m + 1 >= Len(docs) THEN docs ELSE SubSeq(docs, 1, m + 1)

\* cursor.limit(n): 0 is no limit, a negative n caps at |n|.
Limit(docs, n) ==
    LET m == IF n < 0 THEN -n ELSE n IN
    IF n = 0 \/ m >= Len(docs) THEN docs ELSE SubSeq(docs, 1, m)

\* Mutant of Project: no projection is passed to find().
ProjectNothing(doc) == doc

\* The projection {"created_at": 0, "updated_at": 0}.
Project(doc) == Without(doc, {"created_at", "updated_at"})

\* find(query, projection).limit(limit) over the collection, in natural
\* (insertion) order.
Find(coll, query, limit) ==
    LET hits == Limit(SelectSeq(coll, LAMBDA d : Matches(d, query)), limit) IN
    [i \in 1..Len(hits) |-> Project(hits[i])]

\* --------------------------------------------------------- the inputs

DefaultListLimit == 1000
DefaultSearchLimit == 5000

ListLimits == {0, 1, DefaultListLimit}

\* What the store does during one call: whether create_index gets through
\* (index), and whether the store answers the call's find and insert
\* operations (up).
Envs ==
    { [index |-> TRUE, up |-> TRUE], [index |-> FALSE, up |-> TRUE],
      [index |-> FALSE, up |-> FALSE] }

\* Request bodies of POST /api/properties.
FullBody ==
    [title |-> Str("B"), price |-> Num(5), bedrooms |-> Num(2), bathrooms |-> Num(1),
     address |-> Str("1 Main St"), city |-> Str("Tokyo"), country |-> Str("Japan"),
     type |-> Str("house"), status |-> Str("for sale"), color |-> Str("red"),
     location |-> Point(2, 2)]
PropertyBodies ==
    { [title |-> Str("A"), bedrooms |-> Str("3"), location |-> Point(1, 1), note |-> Str("x")],
      FullBody,
      [title |-> Str("D"), location |-> LineString(<<Pos(0, 0), Pos(1, 1)>>)],
      [title |-> Str("E"), location |-> Point(500 * 10000, 0)],
      [location |-> Point(1, 1)],
      [title |-> Str("F"), location |-> Null] }

\* Request bodies of POST /api/properties/search.
Triangle == <<Ring(<< <<0, 0>>, <<4, 0>>, <<0, 4>>, <<0, 0>> >>)>>
TokyoBox == <<Ring(<< <<1390000, 350000>>, <<1400000, 350000>>, <<1400000, 360000>>,
                      <<1390000, 360000>>, <<1390000, 350000>> >>)>>
Unclosed == <<Ring(<< <<0, 0>>, <<4, 0>>, <<0, 4>> >>)>>
Polygon(type, rings) == Obj([type |-> Str(type), coordinates |-> Arr(rings)])
SearchPolygons ==
    { Polygon("Polygon", Triangle), Polygon("Polygon", TokyoBox),
      Polygon("Polygon", Unclosed), Polygon("Point", Triangle) }
SearchFilters ==
    { Obj([city |-> Str("Tokyo")]),
      Obj([location |-> Str("anywhere"), title |-> Str("A")]) }
SearchBodies ==
    { [polygon |-> p] : p \in SearchPolygons }
        \cup { [polygon |-> p, filters |-> f] :
                    p \in {Polygon("Polygon", Triangle), Polygon("Polygon", TokyoBox)},
                    f \in SearchFilters }
\* The requests: every body under the default limit, the bodies with no
\* filters under a limit of 1 too, and one under a limit of 0.
SearchRequests ==
    { [body |-> b, limit |-> DefaultSearchLimit] : b \in SearchBodies }
        \cup { [body |-> [polygon |-> p], limit |-> 1] :
                    p \in {Polygon("Polygon", Triangle), Polygon("Polygon", TokyoBox)} }
        \cup { [body |-> [polygon |-> Polygon("Polygon", TokyoBox)], limit |-> 0] }

\* ------------------------------------------------------- the handlers

\* The record of a call before its handler did anything.
Call(op, req) ==
    [op |-> op, req |-> req, status |-> 200, detail |-> "", items |-> <<>>,
     id |-> Null, inserted |-> 0, ensured |-> FALSE, indexFailed |-> FALSE,
     storeUp |-> FALSE, queried |-> FALSE, query |-> EmptyMap,
     database |-> "", connection |-> "", database_url |-> "", database_name |-> ""]

\* A request refused by validation: the handler does not run.
Invalid(call) == [call EXCEPT !.status = 422, !.detail = "validation error"]

\* Mutant of NotAvailable: the None handle is not checked and db["property"]
\* raises a TypeError.
NotAvailableAsCrash(call) == [call EXCEPT !.status = 500, !.detail = "Internal Server Error"]

\* raise HTTPException(status_code=500, detail="Database not available")
NotAvailable(call) == [call EXCEPT !.status = 500, !.detail = "Database not available"]

\* An exception the handler does not catch: the framework's 500.
ServerError(call) == [call EXCEPT !.status = 500, !.detail = "Internal Server Error"]

\* create_index([("location", "2dsphere")]): builds the index unless the
\* store fails the call or a stored document has a location it refuses;
\* with the index there already it changes nothing.
IndexBuilt(env) ==
    env.index /\ \A i \in 1..Len(store) : IndexAccepts(store[i])

\* _ensure_geo_index with a handle: the index afterwards.  An exception of
\* create_index is swallowed.
IndexAfter(env) == indexExists \/ IndexBuilt(env)

\* The call's record after _ensure_geo_index returned.
Ensured(call, env) ==
    [call EXCEPT !.ensured = TRUE, !.indexFailed = ~(env.index /\ IndexAfter(env)),
                 !.storeUp = env.up]

\* d["id"] = str(d.pop("_id"))
Shape(d) == Merge(Without(d, {"_id"}), [k \in {"id"} |-> Str(ToString(d["_id"].v))])

ShapeAll(docs) == [i \in 1..Len(docs) |-> Shape(docs[i])]

\* The query search_properties builds from its body.
GeoFilter(body) ==
    [k \in {"location"} |->
        Obj([j \in {"$geoWithin"} |->
            Obj([g \in {"$geometry"} |->
                Obj([type |-> Str("Polygon"),
                     coordinates |-> body["polygon"].v["coordinates"]])])])]

FilterDict(body) ==
    IF "filters" \in DOMAIN body /\ body["filters"] # Null THEN body["filters"].v ELSE EmptyMap

\* Mutant of SearchQuery: the merge in the other order, {**geo_filter, **filter_dict}.
SearchQueryFiltersWin(body) == Merge(GeoFilter(body), FilterDict(body))

SearchQuery(body) == Merge(FilterDict(body), GeoFilter(body))

\* The document create_document stores for `data`, under ObjectId n.
StoredDoc(data, n) ==
    Merge(data, [_id |-> Oid(n), created_at |-> Date(n), updated_at |-> Date(n)])

\* Mutant of QueryResult: the exception of create_index is not swallowed.
QueryResultIndexFatal(call, query, limit, env) ==
    LET sent == [call EXCEPT !.queried = TRUE, !.query = query] IN
    IF call.indexFailed THEN [call EXCEPT !.status = 500, !.detail = "Internal Server Error"]
    ELSE IF ~env.up \/ ~QueryOk(query)
         THEN [sent EXCEPT !.status = 500, !.detail = "Internal Server Error"]
    ELSE [sent EXCEPT !.items = ShapeAll(Find(store, query, limit))]

\* The response of find(query).limit(limit) followed by the reshaping loop.
QueryResult(call, query, limit, env) ==
    LET sent == [call EXCEPT !.queried = TRUE, !.query = query] IN
    IF ~env.up \/ ~QueryOk(query) THEN ServerError(sent)
    ELSE [sent EXCEPT !.items = ShapeAll(Find(store, query, limit))]

Unavailable(call) ==
    /\ db = "none"
    /\ last' = NotAvailable(call)
    /\ UNCHANGED <<db, store, indexExists, nextId, nCreated, nSeedOk, submitted>>

\* Mutant of ListProperties: the reshaping loop works on the stored
\* documents themselves.
ListPropertiesReshapingStore ==
    \E limit \in ListLimits, env \in Envs :
        LET call == Call("list", [limit |-> limit]) IN
        IF db = "none" THEN Unavailable(call)
        ELSE /\ indexExists' = IndexAfter(env)
             /\ last' = QueryResult(Ensured(call, env), EmptyMap, limit, env)
             /\ store' = [i \in 1..Len(store) |-> Merge(store[i], [k \in {"id"} |-> Null])]
             /\ UNCHANGED <<db, nextId, nCreated, nSeedOk, submitted>>

\* GET /api/properties
ListProperties ==
    \E limit \in ListLimits, env \in Envs :
        LET call == Call("list", [limit |-> limit]) IN
        IF db = "none" THEN Unavailable(call)
        ELSE /\ indexExists' = IndexAfter(env)
             /\ last' = QueryResult(Ensured(call, env), EmptyMap, limit, env)
             /\ UNCHANGED <<db, store, nextId, nCreated, nSeedOk, submitted>>

\* POST /api/properties/search
SearchProperties ==
    \E req \in SearchRequests, env \in Envs :
        LET body == req.body
            limit == req.limit
            call == Call("search", req)
        IN
        IF ~ValidSearchBody(body)
        THEN /\ last' = Invalid(call)
             /\ UNCHANGED <<db, store, indexExists, nextId, nCreated, nSeedOk, submitted>>
        ELSE IF db = "none" THEN Unavailable(call)
        ELSE /\ indexExists' = IndexAfter(env)
             /\ last' = QueryResult(Ensured(call, env), SearchQuery(body), limit, env)
             /\ UNCHANGED <<db, store, nextId, nCreated, nSeedOk, submitted>>

\* create_document("property", data): one insert_one; the store refuses a
\* document the index does not take.
InsertOk(doc, idx, env) == env.up /\ (idx => IndexAccepts(doc))

\* POST /api/properties
CreateProperty ==
    \E body \in PropertyBodies, env \in Envs :
        LET call == Call("create", [body |-> body])
            doc == StoredDoc(ModelDump(body), nextId)
        IN
        IF ~ValidProperty(body)
        THEN /\ last' = Invalid(call)
             /\ UNCHANGED <<db, store, indexExists, nextId, nCreated, nSeedOk, submitted>>
        ELSE IF db = "none" THEN Unavailable(call)
        ELSE IF ~InsertOk(doc, IndexAfter(env), env)
        THEN /\ indexExists' = IndexAfter(env)
             /\ last' = ServerError(Ensured(call, env))
             /\ UNCHANGED <<db, store, nextId, nCreated, nSeedOk, submitted>>
        ELSE /\ nCreated < MaxCreated /\ Len(store) < MaxDocs
             /\ indexExists' = IndexAfter(env)
             /\ store' = Append(store, doc)
             /\ nextId' = nextId + 1
             /\ nCreated' = nCreated + 1
             /\ last' = [Ensured(call, env) EXCEPT !.id = Str(ToString(nextId)), !.inserted = 1]
             /\ UNCHANGED <<db, nSeedOk>>
             /\ submitted' = Append(submitted, [id |-> Str(ToString(nextId)), body |-> body])

\* The sample of seed_properties.
Sample ==
    << [title |-> Str("SoMa Loft"), price |-> Num(1250000), city |-> Str("San Francisco"),
        country |-> Str("USA"), type |-> Str("apartment"), status |-> Str("for sale"),
        location |-> Point(-1224009, 377817)],
       [title |-> Str("Brooklyn Brownstone"), price |-> Num(2100000), city |-> Str("New York"),
        country |-> Str("USA"), type |-> Str("house"), status |-> Str("for sale"),
        location |-> Point(-739442, 406782)],
       [title |-> Str("Downtown Condo"), price |-> Num(680000), city |-> Str("Toronto"),
        country |-> Str("Canada"), type |-> Str("condo"), status |-> Str("for sale"),
        location |-> Point(-793832, 436532)],
       [title |-> Str("Shibuya Studio"), price |-> Num(450000), city |-> Str("Tokyo"),
        country |-> Str("Japan"), type |-> Str("apartment"), status |-> Str("for rent"),
        location |-> Point(1397006, 356595)],
       [title |-> Str("Canary Wharf Flat"), price |-> Num(920000), city |-> Str("London"),
        country |-> Str("UK"), type |-> Str("apartment"), status |-> Str("for sale"),
        location |-> Point(-195, 515054)],
       [title |-> Str("Bondi Beach House"), price |-> Num(1850000), city |-> Str("Sydney"),
        country |-> Str("Australia"), type |-> Str("house"), status |-> Str("for sale"),
        location |-> Point(1512743, -338908)] >>

\* Mutant of SeedDocs: a sample document whose title is stored already is
\* skipped.
SeedDocsSkippingStored(first) ==
    LET fresh == SelectSeq(Sample,
                    LAMBDA d : \A i \in 1..Len(store) : Get(store[i], "title") # d["title"])
    IN [i \in 1..Len(fresh) |-> StoredDoc(fresh[i], first + i - 1)]

\* The documents the loop over the sample inserts, from ObjectId `first`.
SeedDocs(first) == [i \in 1..Len(Sample) |-> StoredDoc(Sample[i], first + i - 1)]

\* POST /api/properties/seed: one create_document per sample document.
SeedProperties ==
    \E env \in Envs :
        LET call == Call("seed", [body |-> Null]) IN
        IF db = "none" THEN Unavailable(call)
        ELSE IF ~env.up
        THEN /\ indexExists' = IndexAfter(env)
             /\ last' = ServerError(Ensured(call, env))
             /\ UNCHANGED <<db, store, nextId, nCreated, nSeedOk, submitted>>
        ELSE /\ Len(store) + Len(Sample) <= MaxDocs
             /\ indexExists' = IndexAfter(env)
             /\ store' = store \o SeedDocs(nextId)
             /\ nextId' = nextId + Len(SeedDocs(nextId))
             /\ nSeedOk' = nSeedOk + 1
             /\ last' = [Ensured(call, env) EXCEPT !.inserted = Len(Sample)]
             /\ UNCHANGED <<db, nCreated, submitted>>

\* GET /test: never raises; what it finds is text in the response body.
TestDatabase ==
    \E listOk \in BOOLEAN, urlSet \in BOOLEAN, nameSet \in BOOLEAN :
        LET call == [Call("test", [body |-> Null]) EXCEPT
                        !.database_url = IF urlSet THEN "Set" ELSE "Not Set",
                        !.database_name = IF nameSet THEN "Set" ELSE "Not Set"]
        IN
        /\ last' =
            IF db = "none"
            THEN [call EXCEPT !.database = "Available but not initialized",
                              !.connection = "Not Connected"]
            ELSE IF listOk
            THEN [call EXCEPT !.database = "Connected & Working", !.connection = "Connected"]
            ELSE [call EXCEPT !.database = "Connected but Error", !.connection = "Connected"]
        /\ UNCHANGED <<db, store, indexExists, nextId, nCreated, nSeedOk, submitted>>

Init ==
    /\ db \in {"none", "handle"}
    /\ store = <<>>
    /\ indexExists = FALSE
    /\ nextId = 1
    /\ last = Call("none", [body |-> Null])
    /\ nCreated = 0
    /\ nSeedOk = 0
    /\ submitted = <<>>

Next ==
    \/ ListProperties
    \/ SearchProperties
    \/ CreateProperty
    \/ SeedProperties
    \/ TestDatabase

Spec == Init /\ [][Next]_vars

\* ---------------------------------------------------------- the claims

\* The last call was `op` and its handler returned a response body.
Returned(op) == last.op = op /\ last.status = 200

\* The stored document as a client is shown it.
Shown(doc) == Shape(Project(doc))

\* The $geometry of the search request's polygon.
Region(body) == Obj([type |-> Str("Polygon"), coordinates |-> body["polygon"].v["coordinates"]])

\* Indices of the stored documents within the polygon whose value under
\* every key of ks equals the filter's value.
Hits(body, ks) ==
    { i \in 1..Len(store) :
        /\ GeoWithin(Get(store[i], "location"), Region(body))
        /\ \A k \in ks : Get(store[i], k) = FilterDict(body)[k] }

\* The search result is sound and complete for the keys ks of the filters.
SearchContract(ks) ==
    LET body == last.req.body
        hits == Hits(body, ks)
    IN /\ Len(last.items) <= last.req.limit
       /\ \A j \in 1..Len(last.items) : \E i \in hits : last.items[j] = Shown(store[i])
       /\ Cardinality(hits) <= last.req.limit =>
            \A i \in hits : \E j \in 1..Len(last.items) : last.items[j] = Shown(store[i])

\* The filter keys other than `location`, which the geo clause replaces.
OtherKeys(body) == DOMAIN FilterDict(body) \ {"location"}

\* Every filter value under a key other than `location` is a plain value
\* (no array, no operator document such as {"$gt": 1}).
PlainFilters(body) ==
    \A k \in OtherKeys(body) : ~IsObj(FilterDict(body)[k]) /\ ~IsArr(FilterDict(body)[k])

C2_GeoClauseWins ==
    (last.op = "search" /\ last.queried /\ "location" \in DOMAIN FilterDict(last.req.body)) =>
        LET body == last.req.body
            filters == FilterDict(body)
            rest == [body EXCEPT !.filters = Obj(Without(filters, {"location"}))]
        IN /\ DOMAIN last.query = DOMAIN filters
           /\ last.query["location"] =
                Obj([j \in {"$geoWithin"} |-> Obj([g \in {"$geometry"} |-> Region(body)])])
           /\ last.query["location"] # filters["location"]
           /\ \A k \in DOMAIN filters \ {"location"} : last.query[k] = filters[k]
           /\ last.status = 200 =>
                last.items = ShapeAll(Find(store, SearchQuery(rest), last.req.limit))

C2_Witness ==
    /\ Returned("search")
    /\ "location" \in DOMAIN FilterDict(last.req.body)
    /\ Len(last.items) > 0

\* C3: every item of a list or search response has a string `id` and none
\* of `_id`, `created_at`, `updated_at`.
C3_ItemsShaped ==
    last.op \in {"list", "search"} =>
        \A j \in 1..Len(last.items) :
            /\ "id" \in DOMAIN last.items[j]
            /\ IsStr(last.items[j]["id"])
            /\ DOMAIN last.items[j] \cap {"_id", "created_at", "updated_at"} = {}

C3_Witness ==
    /\ Returned("search")
    /\ Len(last.items) > 0
    /\ \A i \in 1..Len(store) : {"_id", "created_at", "updated_at"} \subseteq DOMAIN store[i]
    /\ nCreated > 0 /\ nSeedOk > 0

\* The titles of the sample.
SeedTitles == { Sample[i]["title"] : i \in 1..Len(Sample) }

CountTitle(docs, title) == Cardinality({ i \in 1..Len(docs) : Get(docs[i], "title") = title })

DataOps == {"list", "search", "create", "seed"}

\* C5: while db is None, every data-access operation whose request passes
\* validation fails with HTTP 500 and the message "Database not available",
\* nothing is inserted, and /test answers normally with the unavailability
\* as text in its body.
C5_Unavailable ==
    db = "none" =>
        /\ (last.op \in DataOps /\ last.status # 422) =>
            /\ last.status = 500
            /\ last.detail = "Database not available"
            /\ ~last.queried /\ last.inserted = 0
        /\ store = <<>> /\ nextId = 1
        /\ last.op = "test" =>
            /\ last.status = 200
            /\ last.database = "Available but not initialized"
            /\ last.connection = "Not Connected"

C5_Witness ==
    /\ db = "none"
    /\ last.op = "seed"
    /\ last.status = 500

\* The polygon.type of the last search request.
PolygonType == last.req.body["polygon"].v["type"].v

\* C6: a search whose polygon.type is not "Polygon" is refused by
\* validation: the step ensures no index, sends no query, inserts nothing
\* and leaves the stored properties as they were.
C6_BadPolygonType ==
    [][(last'.op = "search" /\ last'.req.body["polygon"].v["type"].v # "Polygon") =>
            /\ last'.status = 422
            /\ ~last'.ensured /\ ~last'.queried /\ last'.inserted = 0
            /\ store' = store /\ indexExists' = indexExists /\ nextId' = nextId]_vars

C6_Witness ==
    /\ last.op = "search"
    /\ PolygonType # "Polygon"
    /\ last.status = 422
    /\ db = "handle"
    /\ Len(store) > 0 /\ ~indexExists

\* C7 as claimed: every persisted document has a non-null location of
\* type Point.
C7_LocationIsPoint ==
    \A i \in 1..Len(store) :
        /\ Get(store[i], "location") # Null
        /\ IsObj(store[i]["location"])
        /\ Get(store[i]["location"].v, "type") = Str("Point")

\* C8: list and search are read-only: a list or search step leaves the
\* stored documents as they were; of the store's state only the existence
\* of the index may change.
C8_ReadOnly ==
    [][last'.op \in {"list", "search"} => (store' = store /\ nextId' = nextId /\ db' = db)]_vars

C8_Witness ==
    /\ Returned("list")
    /\ Len(last.items) > 0
    /\ last.ensured /\ indexExists

\* The full listings: the limit is not smaller than the number stored.
FullListing == Returned("list") /\ (last.req.limit = 0 \/ last.req.limit >= Len(store))

C10_IndexFailureSwallowed ==
    (last.op \in {"list", "search"} /\ last.status # 422) =>
        /\ db = "handle" => last.ensured /\ last.queried
        /\ (db = "handle" /\ last.indexFailed /\ last.storeUp /\ QueryOk(last.query)) =>
            /\ last.status = 200
            /\ last.items = ShapeAll(Find(store, last.query, last.req.limit))
        /\ (db = "none" \/ ~last.storeUp) => (last.status = 500 /\ last.items = <<>>)

C10_Witness ==
    /\ Returned("list")
    /\ last.indexFailed /\ ~indexExists
    /\ Len(last.items) > 0

====
